---- MODULE Spec2Model ----
(***************************************************************************)
(* A model of out_of_dbus_python: the signature compiler (_FromDbusXformer *)
(* and its parse actions), the public entry points xformers and xformer,   *)
(* the error adapter _wrapper and the error hierarchy of _errors.py.       *)
(*                                                                         *)
(* Strings are sequences of one-character strings.  A Python function      *)
(* object is a record naming the closure it is (kind), the keyword-only    *)
(* parameter its def line declares (kw) and the values it closes over.     *)
(* A call yields a record: a return value, or the exception raised.        *)
(***************************************************************************)
EXTENDS Integers, Sequences, FiniteSets, TLC

(***************************************************************************)
(* Bounds of the exploration.                                              *)
(***************************************************************************)
\* longest signature string handed to xformers
MaxSigLen == 5
\* longest signature string handed to xformer
MaxXformLen == 4
\* longest list of objects handed to the transformer
MaxObjects == 2

\* the characters signatures are drawn from: two basic codes, the variant
\* code, the array code and the four brackets
SigAlphabet == {"i", "s", "v", "a", "(", ")", "{", "}"}

StringsUpTo(n) == UNION {[1..k -> SigAlphabet] : k \in 0..n}

\* longest signature string drawn from every character of the alphabet
MaxCodeLen == 2

\* every type code and bracket of a signature
AllCodes ==
    {"y", "b", "n", "q", "i", "u", "x", "t", "d", "s", "o", "g", "h",
     "v", "a", "(", ")", "{", "}"}

CodeStringsUpTo(n) == UNION {[1..k -> AllCodes] : k \in 0..n}

(***************************************************************************)
(* _errors.py: the exception classes and their base classes.               *)
(***************************************************************************)
OutOfDPError == "OutOfDPError"
OutOfDPGenerationError == "OutOfDPGenerationError"
OutOfDPImpossibleTokenError == "OutOfDPImpossibleTokenError"
OutOfDPRuntimeError == "OutOfDPRuntimeError"
OutOfDPUnexpectedValueError == "OutOfDPUnexpectedValueError"
OutOfDPSurprisingError == "OutOfDPSurprisingError"
OutOfDPSignatureError == "OutOfDPSignatureError"

\* the class statement's base class; every other exception the model raises
\* (TypeError, ValueError, AttributeError, AssertionError, ParseException)
\* derives from Exception outside this hierarchy
BaseOf(e) ==
    CASE e = OutOfDPError -> "Exception"
      [] e = OutOfDPGenerationError -> OutOfDPError
      [] e = OutOfDPImpossibleTokenError -> OutOfDPGenerationError
      [] e = OutOfDPRuntimeError -> OutOfDPError
      [] e = OutOfDPUnexpectedValueError -> OutOfDPRuntimeError
      [] e = OutOfDPSurprisingError -> OutOfDPRuntimeError
      [] e = OutOfDPSignatureError -> OutOfDPError
      [] OTHER -> "Exception"

RECURSIVE IsInstance(_, _)
\* isinstance(err, klass) for exception classes: walk the base classes
IsInstance(e, klass) ==
    IF e = klass THEN TRUE
    ELSE IF e = "Exception" THEN FALSE
    ELSE IsInstance(BaseOf(e), klass)

(***************************************************************************)
(* Runtime values.  t is the Python type; v the payload.                   *)
(***************************************************************************)
None == [t |-> "None", v |-> 0]

\* outcome of a call: a return value, or a raised exception with the value
\* it carries (.value), its __cause__ class, the expression of the converter
\* frame in which the original failure was raised (at), and the number of
\* converter functions invoked (n)
Return(val, n) ==
    [ok |-> TRUE, val |-> val, err |-> "none", value |-> None,
     cause |-> "none", at |-> None, n |-> n]

Raise(err, value, cause, at, n) ==
    [ok |-> FALSE, val |-> None, err |-> err, value |-> value,
     cause |-> cause, at |-> at, n |-> n]

(***************************************************************************)
(* Parse actions of _FromDbusXformer.  A token is a literal of the grammar *)
(* (lit) or the pair (func, sig) a parse action returned.                  *)
(***************************************************************************)
NoFunc == [kind |-> "none", kw |-> ""]
Lit(c) == [lit |-> c, func |-> NoFunc, sig |-> <<>>]
Pair(f, sig) == [lit |-> "", func |-> f, sig |-> sig]

RECURSIVE JoinSigs(_)
\* "".join(s for (_, s) in subtrees)
JoinSigs(toks) ==
    IF toks = <<>> THEN <<>> ELSE Head(toks).sig \o JoinSigs(Tail(toks))

\* [f for (f, _) in subtrees]
FuncsOf(toks) == [k \in 1..Len(toks) |-> toks[k].func]

\* the classes __init__ binds to the basic type codes
BaseKlass ==
    [y |-> "int", b |-> "bool", n |-> "int", q |-> "int", i |-> "int",
     u |-> "int", x |-> "int", t |-> "int", d |-> "float", h |-> "int",
     s |-> "str", o |-> "str", g |-> "str"]

BaseCodes == DOMAIN BaseKlass

\* _handle_base_case(klass, symbol)(): the pair (the_func, symbol)
_handle_base_case(klass, symbol) ==
    [ok |-> TRUE, err |-> "none",
     tok |-> Pair([kind |-> "base", kw |-> "_variant", klass |-> klass], <<symbol>>)]

\* _handle_variant(): the pair (the_func, "v")
_handle_variant ==
    [ok |-> TRUE, err |-> "none",
     tok |-> Pair([kind |-> "variant", kw |-> "variant"], <<"v">>)]

\* _handle_array with the map's fragment put together value first
_handle_array_swapped(toks) ==
    IF Len(toks) = 5 /\ toks[2].lit = "{" /\ toks[5].lit = "}"
    THEN [ok |-> TRUE, err |-> "none",
          tok |-> Pair([kind |-> "dict", kw |-> "_variant",
                        key_func |-> toks[3].func, value_func |-> toks[4].func],
                       <<"a", "{">> \o toks[4].sig \o toks[3].sig \o <<"}">>)]
    ELSE IF Len(toks) = 2
    THEN [ok |-> TRUE, err |-> "none",
          tok |-> Pair([kind |-> "array", kw |-> "_variant", func |-> toks[2].func],
                       <<"a">> \o toks[2].sig)]
    ELSE [ok |-> FALSE, err |-> OutOfDPImpossibleTokenError, tok |-> Lit("")]

\* _handle_array(toks)
_handle_array(toks) ==
    IF Len(toks) = 5 /\ toks[2].lit = "{" /\ toks[5].lit = "}"
    THEN LET subtree == SubSeq(toks, 3, 4)
             signature == JoinSigs(subtree)
             funcs == FuncsOf(subtree)
         IN [ok |-> TRUE, err |-> "none",
             tok |-> Pair([kind |-> "dict", kw |-> "_variant",
                           key_func |-> funcs[1], value_func |-> funcs[2]],
                          <<"a", "{">> \o signature \o <<"}">>)]
    ELSE IF Len(toks) = 2
    THEN [ok |-> TRUE, err |-> "none",
          tok |-> Pair([kind |-> "array", kw |-> "_variant", func |-> toks[2].func],
                       <<"a">> \o toks[2].sig)]
    ELSE [ok |-> FALSE, err |-> OutOfDPImpossibleTokenError, tok |-> Lit("")]

\* _handle_struct(toks)
_handle_struct(toks) ==
    LET subtrees == SubSeq(toks, 2, Len(toks) - 1)
        signature == JoinSigs(subtrees)
        funcs == FuncsOf(subtrees)
    IN [ok |-> TRUE, err |-> "none",
        tok |-> Pair([kind |-> "struct", kw |-> "_variant", funcs |-> funcs],
                     <<"(">> \o signature \o <<")">>)]

(***************************************************************************)
(* The grammar the parse actions are attached to (the productions of the   *)
(* Parser base class that __init__ names): a basic code, "v", an array     *)
(* "a" COMPLETE or "a" "{" CODE COMPLETE "}", a struct "(" COMPLETE+ ")".  *)
(* A parse yields the token its parse action returns and the position      *)
(* after the text consumed.                                                *)
(***************************************************************************)
ParseFail == [ok |-> FALSE, err |-> "ParseException", tok |-> Lit(""), next |-> 0]

At(h, next) == [ok |-> h.ok, err |-> h.err, tok |-> h.tok, next |-> next]

RECURSIVE COMPLETE(_, _), ZeroOrMore(_, _)

\* the productions BYTE .. SIGNATURE at position i of s
CODE(s, i) ==
    IF i <= Len(s) /\ s[i] \in BaseCodes
    THEN At(_handle_base_case(BaseKlass[s[i]], s[i]), i + 1)
    ELSE ParseFail

\* "a" COMPLETE, the COMPLETE parsed as child
ArrayOf(child) ==
    IF ~child.ok THEN child
    ELSE At(_handle_array(<<Lit("a"), child.tok>>), child.next)

\* "a" "{" CODE COMPLETE "}", the CODE parsed as key, the COMPLETE as val
DictEntryOf(s, key, val) ==
    IF ~val.ok THEN val
    ELSE IF val.next <= Len(s) /\ s[val.next] = "}"
    THEN At(_handle_array(<<Lit("a"), Lit("{"), key.tok, val.tok, Lit("}")>>),
            val.next + 1)
    ELSE ParseFail

\* "a" "{" CODE ..., the CODE parsed as key
DictOf(s, key) ==
    IF ~key.ok THEN key ELSE DictEntryOf(s, key, COMPLETE(s, key.next))

\* the production ARRAY at position i of s
ARRAY(s, i) ==
    IF i + 1 <= Len(s) /\ s[i + 1] = "{"
    THEN DictOf(s, CODE(s, i + 2))
    ELSE ArrayOf(COMPLETE(s, i + 1))

\* "(" COMPLETE+ ")", the COMPLETEs parsed as body
StructOf(s, body) ==
    IF ~body.ok THEN [ok |-> FALSE, err |-> body.err, tok |-> Lit(""), next |-> 0]
    ELSE IF body.toks # <<>> /\ body.next <= Len(s) /\ s[body.next] = ")"
    THEN At(_handle_struct(<<Lit("(")>> \o body.toks \o <<Lit(")")>>), body.next + 1)
    ELSE ParseFail

\* the production STRUCT at position i of s
STRUCT(s, i) == StructOf(s, ZeroOrMore(s, i + 1))

\* the production COMPLETE: one complete type at position i of s
COMPLETE(s, i) ==
    IF i > Len(s) THEN ParseFail
    ELSE IF s[i] \in BaseCodes THEN CODE(s, i)
    ELSE IF s[i] = "v" THEN At(_handle_variant, i + 1)
    ELSE IF s[i] = "a" THEN ARRAY(s, i)
    ELSE IF s[i] = "(" THEN STRUCT(s, i)
    ELSE ParseFail

\* the tokens of a first COMPLETE and of those after it
Cons(first, rest) ==
    IF ~rest.ok THEN rest
    ELSE [ok |-> TRUE, err |-> "none",
          toks |-> <<first.tok>> \o rest.toks, next |-> rest.next]

\* the repetition from position i, its first COMPLETE parsed as first: it
\* ends where a COMPLETE does not match
More(s, i, first) ==
    IF ~first.ok
    THEN IF first.err = "ParseException"
         THEN [ok |-> TRUE, err |-> "none", toks |-> <<>>, next |-> i]
         ELSE [ok |-> FALSE, err |-> first.err, toks |-> <<>>, next |-> 0]
    ELSE Cons(first, ZeroOrMore(s, first.next))

\* as many COMPLETEs as match from position i of s, and where they end
ZeroOrMore(s, i) == More(s, i, COMPLETE(s, i))

\* the end of parseString: with parseAll, text left over after the match r
\* is a ParseException
StringEnd(sig, parseAll, r) ==
    IF ~r.ok THEN [ok |-> FALSE, err |-> r.err, toks |-> <<>>]
    ELSE IF parseAll /\ r.next # Len(sig) + 1
    THEN [ok |-> FALSE, err |-> "ParseException", toks |-> <<>>]
    ELSE [ok |-> TRUE, err |-> "none", toks |-> r.toks]

\* PARSER.parseString(sig, parseAll=parseAll): the tokens, or ParseException
PARSER_parseString(sig, parseAll) == StringEnd(sig, parseAll, ZeroOrMore(sig, 1))

\* the result of parseString for the one match r
OneToken(r) ==
    IF ~r.ok THEN [ok |-> FALSE, err |-> r.err, toks |-> <<>>]
    ELSE [ok |-> TRUE, err |-> "none", toks |-> <<r.tok>>]

\* COMPLETE.parseString(signature): one complete type from the start of the
\* text; text after it is not looked at
COMPLETE_parseString(signature) == OneToken(COMPLETE(signature, 1))

\* _wrapper(func): the_func closing over func
_wrapper(func) == [kind |-> "wrapper", kw |-> "variant", func |-> func]

\* [(_wrapper(f), l) for (f, l) in r], r what parseString returned or raised
WrappedPairs(r) ==
    IF ~r.ok THEN [ok |-> FALSE, err |-> r.err, pairs |-> <<>>]
    ELSE [ok |-> TRUE, err |-> "none",
          pairs |-> [k \in 1..Len(r.toks) |->
                       Pair(_wrapper(r.toks[k].func), r.toks[k].sig)]]

\* xformers(sig), with parseAll as line 276 passes it
xformersWith(sig, parseAll) == WrappedPairs(PARSER_parseString(sig, parseAll))

\* xformers without parseAll: the converters of the longest valid prefix
xformers_prefix(sig) == xformersWith(sig, FALSE)

\* xformers(sig)
xformers(sig) == xformersWith(sig, TRUE)

(***************************************************************************)
(* Python values and the built-in operations the converters use on them.   *)
(* Sequences (tuple, list, dbus Array, dbus Struct) hold their elements in *)
(* v; a dict or dbus Dictionary holds its items, pairs <<key, value>>, in  *)
(* order; a str or dbus String holds its characters; an int, a dbus Int32  *)
(* its number; a float or dbus Double twice its number (halves are the     *)
(* only fractions); a bool or dbus Boolean its truth value.                *)
(***************************************************************************)
Val(t, v) == [t |-> t, v |-> v]

SequenceTypes == {"tuple", "list", "Array", "Struct"}
DictTypes == {"dict", "Dictionary"}
StrTypes == {"str", "String"}
IntTypes == {"int", "Int32"}
BoolTypes == {"bool", "Boolean"}
FloatTypes == {"float", "Double"}

PyOk(val) == [ok |-> TRUE, val |-> val, err |-> "none"]
PyErr(err) == [ok |-> FALSE, val |-> None, err |-> err]

\* iter(x): the elements iteration yields, or TypeError
PyIter(x) ==
    IF x.t \in SequenceTypes THEN PyOk(x.v)
    ELSE IF x.t \in StrTypes THEN PyOk([k \in 1..Len(x.v) |-> Val("str", <<x.v[k]>>)])
    ELSE IF x.t \in DictTypes THEN PyOk([k \in 1..Len(x.v) |-> x.v[k][1]])
    ELSE PyErr("TypeError")

\* len(x), or TypeError
PyLen(x) ==
    IF x.t \in SequenceTypes \cup StrTypes \cup DictTypes THEN PyOk(Len(x.v))
    ELSE PyErr("TypeError")

\* x.items(), or AttributeError
PyItems(x) ==
    IF x.t \in DictTypes THEN PyOk(x.v) ELSE PyErr("AttributeError")

Digit == [k \in 0..9 |-> CASE k = 0 -> "0" [] k = 1 -> "1" [] k = 2 -> "2"
                           [] k = 3 -> "3" [] k = 4 -> "4" [] k = 5 -> "5"
                           [] k = 6 -> "6" [] k = 7 -> "7" [] k = 8 -> "8"
                           [] OTHER -> "9"]

Digits == {Digit[k] : k \in 0..9}

DigitValue(c) == CHOOSE k \in 0..9 : Digit[k] = c

RECURSIVE Decimal(_)
\* the decimal text of a number n >= 0
Decimal(n) ==
    IF n < 10 THEN <<Digit[n]>> ELSE Decimal(n \div 10) \o <<Digit[n % 10]>>

RECURSIVE NumberOf(_)
\* the number a text of digits denotes
NumberOf(cs) ==
    IF cs = <<>> THEN 0
    ELSE 10 * NumberOf(SubSeq(cs, 1, Len(cs) - 1)) + DigitValue(cs[Len(cs)])

IsNumeral(cs) == cs # <<>> /\ \A k \in 1..Len(cs) : cs[k] \in Digits

\* halves truncated toward zero to a whole number
Trunc(h) == IF h >= 0 THEN h \div 2 ELSE -((-h) \div 2)

\* int(x)
PyInt(x) ==
    IF x.t \in IntTypes THEN PyOk(Val("int", x.v))
    ELSE IF x.t \in BoolTypes THEN PyOk(Val("int", IF x.v THEN 1 ELSE 0))
    ELSE IF x.t \in FloatTypes THEN PyOk(Val("int", Trunc(x.v)))
    ELSE IF x.t \in StrTypes
    THEN IF IsNumeral(x.v) THEN PyOk(Val("int", NumberOf(x.v))) ELSE PyErr("ValueError")
    ELSE PyErr("TypeError")

\* float(x)
PyFloat(x) ==
    IF x.t \in IntTypes THEN PyOk(Val("float", 2 * x.v))
    ELSE IF x.t \in BoolTypes THEN PyOk(Val("float", IF x.v THEN 2 ELSE 0))
    ELSE IF x.t \in FloatTypes THEN PyOk(Val("float", x.v))
    ELSE IF x.t \in StrTypes
    THEN IF IsNumeral(x.v) THEN PyOk(Val("float", 2 * NumberOf(x.v))) ELSE PyErr("ValueError")
    ELSE PyErr("TypeError")

\* bool(x): the truth value; never fails
PyBool(x) ==
    IF x.t \in BoolTypes THEN PyOk(Val("bool", x.v))
    ELSE IF x.t \in IntTypes \cup FloatTypes THEN PyOk(Val("bool", x.v # 0))
    ELSE IF x.t = "None" THEN PyOk(Val("bool", FALSE))
    ELSE PyOk(Val("bool", x.v # <<>>))

\* str(x): the characters of a string, the decimal text of a number; the
\* text of any other value is kept abstract as its type between brackets
PyStr(x) ==
    IF x.t \in StrTypes THEN PyOk(Val("str", x.v))
    ELSE IF x.t \in IntTypes
    THEN PyOk(Val("str", IF x.v >= 0 THEN Decimal(x.v) ELSE <<"-">> \o Decimal(-x.v)))
    ELSE PyOk(Val("str", <<"<", x.t, ">">>))

\* klass(value) for the classes of BaseKlass
Construct(klass, value) ==
    CASE klass = "int" -> PyInt(value)
      [] klass = "bool" -> PyBool(value)
      [] klass = "float" -> PyFloat(value)
      [] OTHER -> PyStr(value)

\* the dict built so far with d[key] = val done: a key already present keeps
\* its place and takes the new value
DictSet(items, key, val) ==
    IF \E k \in 1..Len(items) : items[k][1] = key
    THEN [k \in 1..Len(items) |-> IF items[k][1] = key THEN <<key, val>> ELSE items[k]]
    ELSE Append(items, <<key, val>>)

(***************************************************************************)
(* The generated converter functions.  Call(f, x, frame) is f(x) and       *)
(* CallVariant(f, x, variant, frame) is f(x, variant=variant), evaluated   *)
(* in the converter frame whose argument is frame: a keyword the callee    *)
(* does not declare is a TypeError raised in the caller.                   *)
(***************************************************************************)
RECURSIVE Body(_, _, _), ZipCall(_, _), DictCall(_, _, _, _)

Call(f, x) == Body(f, x, 0)

CallVariant(f, x, variant, frame) ==
    IF f.kw # "variant" THEN Raise("TypeError", None, "none", frame, 0)
    ELSE Body(f, x, variant)

\* one more converter invoked on the way to outcome r
Counted(r) == [r EXCEPT !.n = @ + 1]

\* the except clauses of _wrapper.the_func on the outcome r of func
Rewrapped(expr, r) ==
    IF r.ok THEN Counted(r)
    ELSE IF IsInstance(r.err, OutOfDPError) THEN Counted(r)
    ELSE Raise(OutOfDPSurprisingError, expr, r.err, r.at, r.n + 1)

\* _wrapper.the_func(expr, variant=variant)
wrapper_the_func(f, expr, variant) ==
    Rewrapped(expr, CallVariant(f.func, expr, variant, expr))

\* (signature, an_obj) = a_tuple
Unpack2(it) ==
    IF ~it.ok THEN PyErr(it.err)
    ELSE IF Len(it.val) # 2 THEN PyErr("ValueError")
    ELSE it

\* self.COMPLETE.parseString(signature) on a value: what is no string has
\* none of the methods of one
ParseInner(sigval) ==
    IF sigval.t \in StrTypes THEN COMPLETE_parseString(sigval.v)
    ELSE [ok |-> FALSE, err |-> "AttributeError", toks |-> <<>>]

\* _handle_variant.the_func from the assert on, (func, sig) in parsed
variant_parsed(a_tuple, variant, sigval, an_obj, parsed) ==
    IF ~parsed.ok
    THEN Raise(OutOfDPUnexpectedValueError, a_tuple, parsed.err, a_tuple, 1)
    ELSE IF parsed.toks[1].sig # sigval.v
    THEN Raise("AssertionError", None, "none", a_tuple, 1)
    ELSE Counted(CallVariant(parsed.toks[1].func, an_obj, variant + 1, a_tuple))

\* _handle_variant.the_func after the unpacking of a_tuple
variant_unpacked(a_tuple, variant, unpacked) ==
    IF ~unpacked.ok
    THEN Raise(OutOfDPUnexpectedValueError, a_tuple, unpacked.err, a_tuple, 1)
    ELSE variant_parsed(a_tuple, variant, unpacked.val[1], unpacked.val[2],
                        ParseInner(unpacked.val[1]))

\* _handle_variant.the_func(a_tuple, variant=variant)
variant_the_func(f, a_tuple, variant) ==
    variant_unpacked(a_tuple, variant, Unpack2(PyIter(a_tuple)))

\* the value of type t a comprehension with outcome r is collected into
Collected(t, r) ==
    Counted(IF r.ok THEN Return(Val(t, r.val), r.n) ELSE r)

\* the dict comprehension over the items of a_dict
dict_items(f, a_dict, items) ==
    IF ~items.ok THEN Raise(items.err, None, "none", a_dict, 1)
    ELSE Counted(DictCall(f.key_func, f.value_func, items.val, <<>>))

\* _handle_array.the_dict_func(a_dict)
the_dict_func(f, a_dict) == dict_items(f, a_dict, PyItems(a_dict))

\* _handle_array.the_array_func(a_list)
the_array_func(f, a_list) ==
    IF a_list.t # "Array"
    THEN Raise(OutOfDPUnexpectedValueError, a_list, "none", a_list, 1)
    ELSE Collected("list", ZipCall([k \in 1..Len(a_list.v) |-> f.func], a_list.v))

\* _handle_struct.the_func(a_struct)
struct_the_func(f, a_struct) ==
    IF a_struct.t # "Struct"
    THEN Raise(OutOfDPUnexpectedValueError, a_struct, "none", a_struct, 1)
    ELSE IF Len(a_struct.v) # Len(f.funcs)
    THEN Raise(OutOfDPUnexpectedValueError, a_struct, "none", a_struct, 1)
    ELSE Collected("tuple", ZipCall(f.funcs, a_struct.v))

\* the try statement of _handle_base_case.the_func on the outcome c of
\* klass(value)
Constructed(value, c) ==
    IF c.ok THEN Return(c.val, 1)
    ELSE Raise(OutOfDPUnexpectedValueError, value, c.err, value, 1)

\* _handle_base_case.the_func(value)
base_the_func(f, value) == Constructed(value, Construct(f.klass, value))

\* the body of function object f run on x
Body(f, x, variant) ==
    CASE f.kind = "wrapper" -> wrapper_the_func(f, x, variant)
      [] f.kind = "variant" -> variant_the_func(f, x, variant)
      [] f.kind = "dict" -> the_dict_func(f, x)
      [] f.kind = "array" -> the_array_func(f, x)
      [] f.kind = "struct" -> struct_the_func(f, x)
      [] OTHER -> base_the_func(f, x)

\* the outcome of a comprehension whose first call had outcome r and whose
\* other calls had outcome rest
Joined(r, rest) ==
    IF ~rest.ok THEN [rest EXCEPT !.n = @ + r.n]
    ELSE Return(<<r.val>> \o rest.val, r.n + rest.n)

\* a comprehension goes on after its first call only when that returned
ZipRest(r, funcs, xs) ==
    IF ~r.ok THEN r ELSE Joined(r, ZipCall(funcs, xs))

\* [f(x) for (f, x) in zip(funcs, xs)]: left to right, ending at the first
\* call that raises; zip stops at the shorter of the two
ZipCall(funcs, xs) ==
    IF funcs = <<>> \/ xs = <<>> THEN Return(<<>>, 0)
    ELSE ZipRest(Call(Head(funcs), Head(xs)), Tail(funcs), Tail(xs))

\* one item of the dict comprehension: k and v the outcomes of key_func(x)
\* and value_func(y), in this order
DictItem(key_func, value_func, items, acc, k, v) ==
    IF ~k.ok THEN k
    ELSE IF ~v.ok THEN [v EXCEPT !.n = @ + k.n]
    ELSE [DictCall(key_func, value_func, items, DictSet(acc, k.val, v.val))
             EXCEPT !.n = @ + k.n + v.n]

\* {key_func(x): value_func(y) for (x, y) in items}, the dict so far in acc
DictCall(key_func, value_func, items, acc) ==
    IF items = <<>> THEN Return(Val("dict", acc), 0)
    ELSE DictItem(key_func, value_func, Tail(items), acc,
                  Call(key_func, Head(items)[1]), Call(value_func, Head(items)[2]))

(***************************************************************************)
(* xformer(signature) and the function it returns.                         *)
(***************************************************************************)
\* funcs = [f for (f, _) in xformers(signature)], r what xformers returned
\* or raised
xformer_funcs(r) ==
    IF ~r.ok THEN [ok |-> FALSE, err |-> r.err, funcs |-> <<>>]
    ELSE [ok |-> TRUE, err |-> "none", funcs |-> FuncsOf(r.pairs)]

\* xformer(signature): the funcs the returned function closes over, or the
\* exception xformers raised
xformer(sig) == xformer_funcs(xformers(sig))

\* the list the transformer returns
Listed(r) == IF r.ok THEN Return(Val("list", r.val), r.n) ELSE r

\* xformer.the_func without the comparison of the lengths
xformer_the_func_unchecked(funcs, objects) ==
    IF ~PyLen(objects).ok THEN Raise(PyLen(objects).err, None, "none", objects, 0)
    ELSE Listed(ZipCall(funcs, PyIter(objects).val))

\* xformer.the_func(objects)
xformer_the_func(funcs, objects) ==
    IF ~PyLen(objects).ok THEN Raise(PyLen(objects).err, None, "none", objects, 0)
    ELSE IF PyLen(objects).val # Len(funcs)
    THEN Raise(OutOfDPUnexpectedValueError, objects, "none", objects, 0)
    ELSE Listed(ZipCall(funcs, PyIter(objects).val))

(***************************************************************************)
(* The values callers hand in.                                             *)
(***************************************************************************)
Str(cs) == Val("String", cs)
I7 == Val("Int32", 7)
Sa == Val("String", <<"a">>)
\* dbus.Array(["a"]), dbus.Struct(("a", 7)), dbus.Struct(("a", 7, 7))
Arr == Val("Array", <<Sa>>)
St2 == Val("Struct", <<Sa, I7>>)
St3 == Val("Struct", <<Sa, I7, I7>>)
\* ("i", 7), ("ii", 7), ("i", 7, 7), ("a", 7), ("v", ("ii", 7))
V_i == Val("tuple", <<Str(<<"i">>), I7>>)
V_ii == Val("tuple", <<Str(<<"i", "i">>), I7>>)
V_3 == Val("tuple", <<Str(<<"i">>), I7, I7>>)
V_a == Val("tuple", <<Str(<<"a">>), I7>>)
V_v_ii == Val("tuple", <<Str(<<"v">>), V_ii>>)
\* dbus.Dictionary({"a": 7})
Dict == Val("Dictionary", << <<Sa, I7>> >>)

Values == {I7, Sa, Arr, St2, St3, Dict, V_i, V_ii, V_3, V_a, V_v_ii}

\* the objects arguments: every list of up to MaxObjects values, and one
\* argument that is no list
ObjectLists == {Val("list", xs) : xs \in UNION {[1..k -> Values] : k \in 0..MaxObjects}}
Objects == ObjectLists \cup {I7}

VARIABLES pc, signature, result, funcs, objects, outcome

vars == <<pc, signature, result, funcs, objects, outcome>>

NoResult == [ok |-> TRUE, err |-> "none", pairs |-> <<>>]

Init ==
    /\ pc = "start"
    /\ signature = <<>>
    /\ result = NoResult
    /\ funcs = <<>>
    /\ objects = None
    /\ outcome = Return(None, 0)

\* a caller calls xformers(sig): the list of pairs comes back, or the
\* exception does
Xformers ==
    /\ pc = "start"
    /\ \E sig \in StringsUpTo(MaxSigLen) \cup CodeStringsUpTo(MaxCodeLen) :
          /\ pc' = "xformers"
          /\ signature' = sig
          /\ result' = xformers(sig)
    /\ UNCHANGED <<funcs, objects, outcome>>

\* a caller calls xformer(sig): the transformer comes back, or the exception
\* does
Xformer ==
    /\ pc = "start"
    /\ \E sig \in StringsUpTo(MaxXformLen) :
          \E r \in {xformer(sig)} :
             /\ signature' = sig
             /\ funcs' = r.funcs
             /\ pc' = IF r.ok THEN "xformer" ELSE "raised"
             /\ outcome' = IF r.ok THEN outcome
                           ELSE Raise(r.err, None, "none", None, 0)
    /\ UNCHANGED <<result, objects>>

\* the caller applies the transformer to objects
TheFunc ==
    /\ pc = "xformer"
    /\ \E objs \in Objects :
          /\ objects' = objs
          /\ outcome' = xformer_the_func(funcs, objs)
    /\ pc' = "done"
    /\ UNCHANGED <<signature, result, funcs>>

Next == Xformers \/ Xformer \/ TheFunc

Spec == Init /\ [][Next]_vars

(***************************************************************************)
(* The signature grammar stated on whole strings, apart from the parser:   *)
(* what a complete type is and what a sequence of complete types is.       *)
(***************************************************************************)
RECURSIVE IsCompleteType(_), IsTypeSequence(_)

IsCompleteType(s) ==
    \/ Len(s) = 1 /\ s[1] \in BaseCodes \cup {"v"}
    \/ Len(s) >= 2 /\ s[1] = "a" /\ IsCompleteType(Tail(s))
    \/ /\ Len(s) >= 5
       /\ s[1] = "a" /\ s[2] = "{" /\ s[3] \in BaseCodes /\ s[Len(s)] = "}"
       /\ IsCompleteType(SubSeq(s, 4, Len(s) - 1))
    \/ /\ Len(s) >= 3
       /\ s[1] = "(" /\ s[Len(s)] = ")"
       /\ IsTypeSequence(SubSeq(s, 2, Len(s) - 1))

IsTypeSequence(s) ==
    \/ s = <<>>
    \/ \E k \in 1..Len(s) :
          /\ IsCompleteType(SubSeq(s, 1, k))
          /\ IsTypeSequence(SubSeq(s, k + 1, Len(s)))

RECURSIVE NumProductions(_)
\* the number of complete types a valid signature is the concatenation of
NumProductions(s) ==
    IF s = <<>> THEN 0
    ELSE LET k == CHOOSE k \in 1..Len(s) :
                      /\ IsCompleteType(SubSeq(s, 1, k))
                      /\ IsTypeSequence(SubSeq(s, k + 1, Len(s)))
         IN 1 + NumProductions(SubSeq(s, k + 1, Len(s)))

\* the text of the first complete type of a valid, non-empty signature
FirstProduction(s) ==
    LET k == CHOOSE k \in 1..Len(s) :
                 /\ IsCompleteType(SubSeq(s, 1, k))
                 /\ IsTypeSequence(SubSeq(s, k + 1, Len(s)))
    IN SubSeq(s, 1, k)

Applied == pc = "done" /\ objects.t = "list"

RightArity == Applied /\ Len(objects.v) = NumProductions(signature)

(***************************************************************************)
(* C1: whenever the list of values handed to the transformer of a          *)
(* signature has another length than the signature has top-level           *)
(* productions, shorter or longer, the call raises                         *)
(* OutOfDPUnexpectedValueError carrying the list, and no converter has     *)
(* been applied to any value.                                              *)
(***************************************************************************)
C1_Arity ==
    Applied /\ Len(objects.v) # NumProductions(signature)
        => /\ ~outcome.ok
           /\ outcome.err = OutOfDPUnexpectedValueError
           /\ outcome.value = objects
           /\ outcome.n = 0

\* a list of one value handed to the transformer of a two-production
\* signature has been refused
C1_Witness ==
    /\ Applied
    /\ Len(objects.v) = 1
    /\ NumProductions(signature) = 2
    /\ outcome.err = OutOfDPUnexpectedValueError

CorrectlyTyped(code, x) ==
    \/ BaseKlass[code] = "int" /\ x.t = "Int32"
    \/ BaseKlass[code] = "str" /\ x.t = "String"
    \/ BaseKlass[code] = "bool" /\ x.t = "Boolean"
    \/ BaseKlass[code] = "float" /\ x.t = "Double"

C2_Case ==
    /\ Applied
    /\ Len(signature) = 1 /\ signature[1] \in BaseCodes
    /\ Len(objects.v) = 1 /\ CorrectlyTyped(signature[1], objects.v[1])

(***************************************************************************)
(* C2: transforming a correctly typed primitive value under its own basic  *)
(* type code succeeds and yields the same logical value: transform of "i"  *)
(* on [Int32 7] yields [7], of "s" on [String "a"] yields ["a"].           *)
(***************************************************************************)
C2_PrimitiveNoOp ==
    C2_Case
        => /\ outcome.ok
           /\ outcome.val.t = "list"
           /\ Len(outcome.val.v) = 1
           /\ outcome.val.v[1].v = objects.v[1].v

(***************************************************************************)
(* C3: every failure a caller of xformers, of xformer or of the            *)
(* transformer observes is an OutOfDPError or one of its descendants.      *)
(***************************************************************************)
C3_OnlyDomainErrors ==
    /\ pc = "xformers" /\ ~result.ok => IsInstance(result.err, OutOfDPError)
    /\ pc \in {"raised", "done"} /\ ~outcome.ok => IsInstance(outcome.err, OutOfDPError)

RequiredContainer(production) ==
    IF production[1] = "(" THEN {"Struct"}
    ELSE IF Len(production) >= 2 /\ production[2] = "{" THEN DictTypes
    ELSE {"Array"}

C4_Case ==
    /\ RightArity
    /\ signature # <<>>
    /\ FirstProduction(signature)[1] \in {"a", "("}
    /\ objects.v[1].t \notin RequiredContainer(FirstProduction(signature))

(***************************************************************************)
(* C4: when the value supplied for the first top-level production, an      *)
(* array, a map or a struct, is not a container of the kind the type code  *)
(* requires, the transform raises OutOfDPUnexpectedValueError carrying     *)
(* that value.                                                             *)
(***************************************************************************)
C4_ContainerCapability ==
    C4_Case
        => /\ ~outcome.ok
           /\ outcome.err = OutOfDPUnexpectedValueError
           /\ outcome.value = objects.v[1]

StructChildren(sig) == SubSeq(sig, 2, Len(sig) - 1)

C5_Case ==
    /\ RightArity
    /\ Len(objects.v) = 1
    /\ signature[1] = "("
    /\ objects.v[1].t = "Struct"

(***************************************************************************)
(* C5: the transformer of a single struct signature with k children,       *)
(* applied to a Struct of m elements, raises OutOfDPUnexpectedValueError   *)
(* carrying the struct when m # k, and when m = k returns the tuple whose  *)
(* i-th element is the i-th child converter applied to the i-th element.   *)
(***************************************************************************)
C5_Struct ==
    C5_Case
        => LET a_struct == objects.v[1]
               k == NumProductions(StructChildren(signature))
               children == funcs[1].func.funcs
           IN IF Len(a_struct.v) # k
              THEN /\ ~outcome.ok
                   /\ outcome.err = OutOfDPUnexpectedValueError
                   /\ outcome.value = a_struct
              ELSE /\ outcome.ok
                   /\ outcome.val.v[1].t = "tuple"
                   /\ Len(outcome.val.v[1].v) = k
                   /\ \A i \in 1..k :
                         outcome.val.v[1].v[i] = Call(children[i], a_struct.v[i]).val

IsPair(p) == PyIter(p).ok /\ Len(PyIter(p).val) = 2

InnerSignature(p) == PyIter(p).val[1]

InnerConverter(p) == COMPLETE_parseString(InnerSignature(p).v).toks[1].func

C6_Case ==
    /\ Applied
    /\ signature = <<"v">>
    /\ Len(objects.v) = 1
    /\ IsPair(objects.v[1])
    /\ InnerSignature(objects.v[1]).t \in StrTypes
    /\ IsCompleteType(InnerSignature(objects.v[1]).v)
    /\ Call(InnerConverter(objects.v[1]), PyIter(objects.v[1]).val[2]).ok

(***************************************************************************)
(* C6: the transformer of "v" applied to a pair (s, x), s the text of      *)
(* exactly one complete type whose converter accepts x, returns what that  *)
(* converter returns on x: transform of "v" on [("i", 7)] yields [7].      *)
(***************************************************************************)
C6_Variant ==
    C6_Case
        => /\ outcome.ok
           /\ outcome.val.v[1]
                = Call(InnerConverter(objects.v[1]), PyIter(objects.v[1]).val[2]).val

C7_Case ==
    /\ Applied
    /\ signature = <<"v">>
    /\ Len(objects.v) = 1
    /\ \/ ~IsPair(objects.v[1])
       \/ InnerSignature(objects.v[1]).t \notin StrTypes
       \/ ~IsCompleteType(InnerSignature(objects.v[1]).v)

(***************************************************************************)
(* C7: the transformer of "v" applied to a value that is not a pair, or    *)
(* whose inner signature does not parse, or whose inner signature is not   *)
(* the text of exactly one complete type, raises                           *)
(* OutOfDPUnexpectedValueError carrying the whole value.                   *)
(***************************************************************************)
C7_VariantErrors ==
    C7_Case
        => /\ ~outcome.ok
           /\ outcome.err = OutOfDPUnexpectedValueError
           /\ outcome.value = objects.v[1]

(***************************************************************************)
(* C8: xformers succeeds on a string exactly when the whole string is a    *)
(* concatenation of complete types; a string with a valid proper prefix    *)
(* and characters left over fails.                                         *)
(***************************************************************************)
C8_FullConsumption ==
    pc = "xformers" => (result.ok <=> IsTypeSequence(signature))

\* xformers has refused a string whose longest valid prefix is not empty
C8_Witness ==
    /\ pc = "xformers"
    /\ ~result.ok
    /\ \E k \in 1..(Len(signature) - 1) : IsTypeSequence(SubSeq(signature, 1, k))

(***************************************************************************)
(* C9: the fragments xformers returns for a signature, concatenated in     *)
(* order, are the signature character for character.                       *)
(***************************************************************************)
C9_FragmentRoundTrip ==
    pc = "xformers" /\ result.ok => JoinSigs(result.pairs) = signature

\* xformers has compiled a signature that holds a map
C9_Witness ==
    /\ pc = "xformers"
    /\ result.ok
    /\ \E k \in 1..Len(signature) : signature[k] = "{"
    /\ JoinSigs(result.pairs) = signature

(***************************************************************************)
(* C10: every failure of the transformer is an OutOfDPError, and an        *)
(* OutOfDPSurprisingError carries the expression that was passed to the    *)
(* converter in which the original failure was raised, with that failure   *)
(* as its cause.                                                           *)
(***************************************************************************)
C10_WrappedEverywhere ==
    pc = "done" /\ ~outcome.ok
        => /\ IsInstance(outcome.err, OutOfDPError)
           /\ outcome.err = OutOfDPSurprisingError
                 => outcome.value = outcome.at /\ outcome.cause # "none"
====
